---------------------------- MODULE Spec2Model ----------------------------
(***************************************************************************)
(* WorkTool Pro browser extension.                                         *)
(*                                                                         *)
(* Four cooperating parts of the extension are modelled, each with its own *)
(* specification over the shared variable tuple:                           *)
(*   SpecBg   the background service worker (src/unnamed/part_002):        *)
(*            readiness gate, stored header list, dynamic network rules    *)
(*   SpecVal  the table validator isValidTable of the content script       *)
(*   SpecLoc  the table locator findTables of the content script           *)
(*   SpecMon  the change monitor performTableDetection of the content      *)
(*            script                                                       *)
(* The content script modelled is the enhanced one                         *)
(* (src/src/components/CopyTools.tsx lines 70-1010).                       *)
(***************************************************************************)
EXTENDS Integers, Sequences, FiniteSets, TLC

VARIABLES
    \* ---- background service worker (part_002) ----
    bgLoaded,        \* the worker script has been evaluated to its end
    isReady,         \* part_002:6
    customHeaders,   \* part_002:5
    dynamicRules,    \* the platform's dynamic rule set (declarativeNetRequest)
    slots,           \* in-flight applyHeaders / clearHeaders handlers
    bgResp,          \* the response of the last synchronously answered message
    \* ---- table validator ----
    vTable,          \* the element handed to isValidTable
    vStrict,         \* isValidTable(vTable, false), or "unset"
    vRelaxed,        \* isValidTable(vTable, true), or "unset"
    \* ---- table locator ----
    dom,             \* the page: where each table element is and what it looks like
    foundTables,     \* CopyTools.tsx:92
    returned,        \* the value returned by the findTables call just made
    \* ---- change monitor ----
    domCount,        \* number of tables a relaxed scan of the page finds now
    lastTableCount,  \* CopyTools.tsx:93
    detectionAttempts, \* CopyTools.tsx:94
    firstScanDone,   \* history: a scan has begun since initialization
    sending,         \* scans suspended in their updateTables delivery
    retryTimers,     \* number of pending backoff timers
    lastScan,        \* history: what the scan begun last decided
    ended,           \* history: what the scan ended last scheduled
    \* ---- page agent: message listener and clipboard exporter ----
    pageResp,        \* the responses sent to the message being handled
    copyOp,          \* the copy operation begun last
    clipboard,       \* the tables whose markup the system clipboard holds
    \* ---- page agent: copy-protection toggle ----
    prot,            \* style sheet, override style nodes, copyProtectionDisabled
    \* ---- page agent: highlighter ----
    hl,              \* the tables carrying highlight styling
    \* ---- page agent: relay to the background worker ----
    relay,           \* the sendMessageWithRetry call in progress, backgroundReady
    \* ---- page agent: scan scheduling ----
    sched            \* debounce timers, observer, poll, and their history

bgVars  == <<bgLoaded, isReady, customHeaders, dynamicRules, slots, bgResp>>
valVars == <<vTable, vStrict, vRelaxed>>
locVars == <<dom, foundTables, returned>>
monVars == <<domCount, lastTableCount, detectionAttempts, firstScanDone,
             sending, retryTimers, lastScan, ended>>
pageVars == <<pageResp, copyOp, clipboard, prot, hl, relay, sched>>
restVars == <<bgVars, valVars, monVars>>
vars    == <<bgVars, valVars, locVars, monVars, pageVars>>

BgFrame  == UNCHANGED <<valVars, locVars, monVars, pageVars>>
ValFrame == UNCHANGED <<bgVars, locVars, monVars, pageVars>>
LocFrame == UNCHANGED <<bgVars, valVars, monVars, pageVars>>
MonFrame == UNCHANGED <<bgVars, valVars, locVars, pageVars>>

(***************************************************************************)
(* Bounds of the model.                                                    *)
(***************************************************************************)
MaxHeaders == 2      \* longest header list of a request
MaxTables == 2       \* table elements the page may hold
MaxSending == 2      \* scans suspended in their notification at once
MaxScans == 17       \* scans run in one behaviour
MaxSelected == 2     \* longest selectedIds list of a request
MaxRules == 3        \* rules of the page's style sheet
MaxToggles == 5      \* toggleCopyProtection calls in one behaviour
MaxTimers == 2       \* pending retry timers when a failing scan adds one


(***************************************************************************)
(* Background service worker: src/unnamed/part_002                         *)
(***************************************************************************)

\* RequestHeader values a request may carry (CopyTools.tsx:1095-1100): an
\* enabled header and a disabled header, of different names and values.
Headers ==
    { [name |-> "A", value |-> "1", enabled |-> TRUE],
      [name |-> "B", value |-> "2", enabled |-> FALSE] }

\* The header lists of a request: every sequence of at most MaxHeaders headers.
HeaderLists == UNION { [1..n -> Headers] : n \in 0..MaxHeaders }

\* The header requests handled at once.
Slots == {1, 2}

IdleSlot ==
    [action |-> "none", pc |-> "idle", ruleIds |-> {}, rules |-> {},
     hdrs |-> <<>>, alone |-> FALSE, again |-> FALSE, success |-> FALSE]

NoReply == [action |-> "none", success |-> FALSE, detail |-> "none"]

Reply(a, ok, detail) == [action |-> a, success |-> ok, detail |-> detail]

Busy(s) == slots[s].pc # "idle"

\* The slot a newly received header request is handled in.
FreeSlot(s) == /\ ~Busy(s)
               /\ \A t \in Slots : t < s => Busy(t)

\* part_002:13  if (!isReady && request.action !== 'ping')
NotReadyGate(action) == ~isReady /\ action # "ping"

\* part_002:82-99  customHeaders.map((header, index) => ({id: index + 1, ...}))
RulesOf(H) ==
    { [id |-> i, header |-> H[i].name, value |-> H[i].value] : i \in 1..Len(H) }

RuleIds(rules) == { r.id : r \in rules }

\* chrome.declarativeNetRequest.updateDynamicRules({addRules, removeRuleIds}):
\* atomic; the ids in removeRuleIds are removed first, and the call is rejected
\* as a whole when an added rule's id is still in use.
UpdateAccepted(cur, add, rm) ==
    \A r \in add : \A q \in cur : q.id = r.id => q.id \in rm

UpdateResult(cur, add, rm) == { q \in cur : q.id \notin rm } \cup add

\* The worker script without the assignment of part_002:152.
ScriptEvalSkipsReady ==
    /\ ~bgLoaded
    /\ bgLoaded' = TRUE
    /\ UNCHANGED <<isReady, customHeaders, dynamicRules, slots, bgResp>>

\* The worker script runs to its end: listeners registered, part_002:152.
ScriptEval ==
    /\ ~bgLoaded
    /\ bgLoaded' = TRUE
    /\ isReady' = TRUE
    /\ UNCHANGED <<customHeaders, dynamicRules, slots, bgResp>>

\* part_002:134-137, 140-143, 146-149
Hook ==
    /\ bgLoaded
    /\ isReady' = TRUE
    /\ UNCHANGED <<bgLoaded, customHeaders, dynamicRules, slots, bgResp>>

OnInstalled == Hook

OnStartup == Hook

OnActivate == Hook

\* A message answered within the listener call: part_002:9-21, 23-27, 60-66.
SyncReply(action, ok, detail) ==
    /\ bgLoaded
    /\ bgResp' = IF NotReadyGate(action)
                 THEN Reply(action, FALSE, "not ready")
                 ELSE Reply(action, ok, detail)
    /\ UNCHANGED <<bgLoaded, isReady, customHeaders, dynamicRules, slots>>

OnPing == SyncReply("ping", TRUE, "ready")

OnUpdateTables == SyncReply("updateTables", TRUE, "none")

\* part_002:60-62: the reply carries customHeaders as it is at that moment.
OnGetHeaders == SyncReply("getHeaders", TRUE, "headers")

OnUnknown == SyncReply("other", FALSE, "unknown action")

\* A header request begins.  alone, hdrs and again are history: whether no
\* other header request has been in flight with this one and, while that is
\* so, the header list the request carried and whether that list is the one
\* applied last, with its rules installed.
Begin(s, action, H) ==
    [t \in Slots |->
        IF t = s
        THEN [action |-> action, pc |-> "get", ruleIds |-> {}, rules |-> {},
              hdrs |-> IF \A u \in Slots : ~Busy(u) THEN H ELSE <<>>,
              alone |-> \A u \in Slots : ~Busy(u),
              again |-> /\ \A u \in Slots : ~Busy(u)
                        /\ action = "applyHeaders"
                        /\ H = customHeaders
                        /\ dynamicRules = RulesOf(H),
              success |-> FALSE]
        ELSE IF Busy(t)
        THEN [slots[t] EXCEPT !.alone = FALSE, !.hdrs = <<>>, !.again = FALSE]
        ELSE slots[t]]

\* part_002:29-45: the listener's applyHeaders case up to the first await
\* (updateNetworkRules -> clearNetworkRules -> getDynamicRules, part_002:75,117).
\* has = FALSE is a request without a headers field.
OnApplyHeaders(s, has, H) ==
    /\ bgLoaded
    /\ FreeSlot(s)
    /\ IF NotReadyGate("applyHeaders")
       THEN /\ bgResp' = Reply("applyHeaders", FALSE, "not ready")
            /\ UNCHANGED <<customHeaders, slots>>
       ELSE IF ~has
       THEN /\ bgResp' = Reply("applyHeaders", FALSE, "missing headers")
            /\ UNCHANGED <<customHeaders, slots>>
       ELSE /\ customHeaders' = H
            /\ slots' = Begin(s, "applyHeaders", H)
            /\ UNCHANGED bgResp
    /\ UNCHANGED <<bgLoaded, isReady, dynamicRules>>

\* part_002:47-58: the listener's clearHeaders case up to the first await.
OnClearHeaders(s) ==
    /\ bgLoaded
    /\ FreeSlot(s)
    /\ IF NotReadyGate("clearHeaders")
       THEN /\ bgResp' = Reply("clearHeaders", FALSE, "not ready")
            /\ UNCHANGED <<customHeaders, slots>>
       ELSE /\ customHeaders' = <<>>
            /\ slots' = Begin(s, "clearHeaders", <<>>)
            /\ UNCHANGED bgResp
    /\ UNCHANGED <<bgLoaded, isReady, dynamicRules>>

(* The handlers below are asynchronous.  Each platform call is one step: the
   call takes effect in the browser and the handler resumes with its result.
   Between the effect and the resumption the handler itself does nothing, and
   the resumption reads only customHeaders and the handler's own locals, so
   taking the two together loses no interleaving with the other handlers. *)

\* The handler after clearNetworkRules has returned: part_002:52-54 for
\* clearHeaders; part_002:77-105 for applyHeaders, where customHeaders is
\* read after the awaits and the rules to add are handed to the platform.
AfterClear(s) ==
    IF slots[s].action = "applyHeaders" /\ customHeaders # <<>>
    THEN [slots EXCEPT ![s].pc = "add", ![s].ruleIds = {},
                       ![s].rules = RulesOf(customHeaders)]
    ELSE [slots EXCEPT ![s].pc = "done", ![s].ruleIds = {}, ![s].success = TRUE]

\* part_002:108-111, 127-130, 37-39, 54-56: a rejection is rethrown and
\* answered {success: false, error}.
Rejected(s) ==
    [slots EXCEPT ![s].pc = "done", ![s].ruleIds = {}, ![s].rules = {},
                  ![s].success = FALSE]

\* clearNetworkRules returning without removing anything.
GetRulesKeepsRules(s) ==
    /\ slots[s].pc = "get"
    /\ slots' = AfterClear(s)
    /\ UNCHANGED <<bgLoaded, isReady, customHeaders, dynamicRules, bgResp>>

\* part_002:117-126: getDynamicRules answers with the rules of that moment, or
\* rejects the call; clearNetworkRules hands the rules' ids to the platform
\* for removal, or returns when there are none.
GetRules(s) ==
    /\ slots[s].pc = "get"
    /\ \E answered \in BOOLEAN :
          slots' = IF ~answered THEN Rejected(s)
                   ELSE IF dynamicRules # {}
                   THEN [slots EXCEPT ![s].pc = "rm",
                                      ![s].ruleIds = RuleIds(dynamicRules)]
                   ELSE AfterClear(s)
    /\ UNCHANGED <<bgLoaded, isReady, customHeaders, dynamicRules, bgResp>>

\* part_002:121-124: the platform removes the rules, or rejects the call.
RemoveRules(s) ==
    /\ slots[s].pc = "rm"
    /\ \E accepted \in BOOLEAN :
          IF accepted
          THEN /\ dynamicRules' = UpdateResult(dynamicRules, {}, slots[s].ruleIds)
               /\ slots' = AfterClear(s)
          ELSE /\ slots' = Rejected(s)
               /\ UNCHANGED dynamicRules
    /\ UNCHANGED <<bgLoaded, isReady, customHeaders, bgResp>>

\* part_002:102-105, 35-36: the platform installs the rules and the request
\* is answered {success: true}, or it rejects the call.
AddRules(s) ==
    /\ slots[s].pc = "add"
    /\ \E accepted \in BOOLEAN :
          IF accepted /\ UpdateAccepted(dynamicRules, slots[s].rules, {})
          THEN /\ dynamicRules' = UpdateResult(dynamicRules, slots[s].rules, {})
               /\ slots' = [slots EXCEPT ![s].pc = "done", ![s].rules = {},
                                          ![s].success = TRUE]
          ELSE /\ slots' = Rejected(s)
               /\ UNCHANGED dynamicRules
    /\ UNCHANGED <<bgLoaded, isReady, customHeaders, bgResp>>

\* The sender has received the response; the handler is gone.
Retire(s) ==
    /\ slots[s].pc = "done"
    /\ slots' = [slots EXCEPT ![s] = IdleSlot]
    /\ UNCHANGED <<bgLoaded, isReady, customHeaders, dynamicRules, bgResp>>

BgNext ==
    \/ ScriptEval /\ BgFrame
    \/ OnInstalled /\ BgFrame
    \/ OnStartup /\ BgFrame
    \/ OnActivate /\ BgFrame
    \/ OnPing /\ BgFrame
    \/ OnUpdateTables /\ BgFrame
    \/ OnGetHeaders /\ BgFrame
    \/ OnUnknown /\ BgFrame
    \/ \E s \in Slots, H \in HeaderLists : OnApplyHeaders(s, TRUE, H) /\ BgFrame
    \/ \E s \in Slots : OnApplyHeaders(s, FALSE, <<>>) /\ BgFrame
    \/ \E s \in Slots : OnClearHeaders(s) /\ BgFrame
    \/ \E s \in Slots : GetRules(s) /\ BgFrame
    \/ \E s \in Slots : RemoveRules(s) /\ BgFrame
    \/ \E s \in Slots : AddRules(s) /\ BgFrame
    \/ \E s \in Slots : Retire(s) /\ BgFrame


(***************************************************************************)
(* Table validator: src/src/components/CopyTools.tsx  isValidTable         *)
(***************************************************************************)

ScanRows == 5        \* CopyTools.tsx:301
ScanCols == 10       \* CopyTools.tsx:304
StructRows == 2      \* CopyTools.tsx:321
StructCols == 2      \* CopyTools.tsx:321
MinWidth == 10       \* CopyTools.tsx:340
MinHeight == 5       \* CopyTools.tsx:340

Min(a, b) == IF a < b THEN a ELSE b

\* A cell is "empty" (no text, no markup), "text" (its trimmed textContent is
\* not empty) or "html" (no text, but markup such as an image or an input).
CellKinds == {"empty", "text", "html"}

\* CopyTools.tsx:307-308  textContent?.trim() || innerHTML?.trim()
CellHasContent(c) == c = "text" \/ c = "html"

\* CopyTools.tsx:301-316: the scan of the first rows and columns for a
\* cell with content.
WindowHasContent(t) ==
    \E i \in 1..Min(ScanRows, Len(t.rows)) :
        /\ Len(t.rows[i]) > 0
        /\ \E j \in 1..Min(ScanCols, Len(t.rows[i])) : CellHasContent(t.rows[i][j])

\* hasAnyContent without the structural fallback of lines 319-324.
HasAnyContentNoStructure(t, relaxedMode) ==
    IF relaxedMode
    THEN Len(t.rows) >= 1 /\ Len(t.rows[1]) >= 1
    ELSE WindowHasContent(t)

\* CopyTools.tsx:292-325  hasAnyContent
HasAnyContent(t, relaxedMode) ==
    IF relaxedMode
    THEN Len(t.rows) >= 1 /\ Len(t.rows[1]) >= 1
    ELSE \/ WindowHasContent(t)
         \/ Len(t.rows) >= StructRows /\ Len(t.rows[1]) >= StructCols

\* The visibility check without its visibility: hidden half.
IsHiddenIgnoresVisibility(t) == t.display = "none"

\* CopyTools.tsx:281-284
IsHidden(t) == t.display = "none" \/ t.visibility = "hidden"

\* The denylist consulted in both modes.
DeniedInBothModes(t, relaxedMode) == t.datepicker

\* CopyTools.tsx:333-337: the denylist is consulted in strict mode only.
Denied(t, relaxedMode) == ~relaxedMode /\ t.datepicker

\* CopyTools.tsx:269-349.  t.kind is "null" for an absent element, "foreign"
\* for an element without a rows collection, "table" for a table element.
isValidTable(t, relaxedMode) ==
    IF t.kind # "table" THEN FALSE
    ELSE IF IsHidden(t) THEN FALSE
    ELSE IF Len(t.rows) < 1 THEN FALSE
    ELSE IF ~HasAnyContent(t, relaxedMode) THEN FALSE
    ELSE IF Denied(t, relaxedMode) THEN FALSE
    ELSE IF t.width < MinWidth \/ t.height < MinHeight THEN FALSE
    ELSE TRUE

\* CopyTools.tsx:351-355
getTableInfo(t) ==
    [rows |-> Len(t.rows),
     cols |-> IF Len(t.rows) > 0 THEN Len(t.rows[1]) ELSE 0]

(* The elements isValidTable is tried on.  Row structures: n rows, the first
   of width w0 and the others of width w, all cells empty except at most one
   cell, at any position, holding text or markup.  The sizes straddle the
   code's thresholds (the 5 x 10 scan window, the 2 x 2 structure). *)
RowCounts == {0, 1, StructRows, ScanRows, ScanRows + 1}

FirstWidths == {0, 1, StructCols, ScanCols + 1}

OtherWidths == {0, 1, ScanCols + 1}

WidthOf(i, w0, w) == IF i = 1 THEN w0 ELSE w

MkRows(n, w0, w, pi, pj, kind) ==
    [i \in 1..n |->
        [j \in 1..WidthOf(i, w0, w) |->
            IF i = pi /\ j = pj THEN kind ELSE "empty"]]

RowStructures ==
    { MkRows(n, w0, w, 0, 0, "empty") :
          n \in RowCounts, w0 \in FirstWidths, w \in OtherWidths }
    \cup
    UNION { UNION { { MkRows(n, w0, w, pi, pj, kind) :
                          pj \in 1..WidthOf(pi, w0, w), kind \in {"text", "html"} } :
                      pi \in 1..n } :
              n \in RowCounts, w0 \in FirstWidths, w \in OtherWidths }

MkTable(rows, d, v, wd, ht, dp) ==
    [kind |-> "table", rows |-> rows, display |-> d, visibility |-> v,
     width |-> wd, height |-> ht, datepicker |-> dp]

NullElement == [MkTable(<<>>, "table", "visible", 0, 0, FALSE) EXCEPT !.kind = "null"]

ForeignElement == [MkTable(<<>>, "table", "visible", 100, 100, FALSE) EXCEPT !.kind = "foreign"]

ValInputs ==
    { MkTable(rows, d, v, wd, ht, dp) :
          rows \in RowStructures,
          d \in {"table", "none"}, v \in {"visible", "hidden"},
          wd \in {MinWidth - 1, MinWidth}, ht \in {MinHeight - 1, MinHeight},
          dp \in BOOLEAN }
    \cup {NullElement, ForeignElement}

Verdict(b) == IF b THEN "accept" ELSE "reject"

\* isValidTable(table, false)
ValidateStrict ==
    /\ vStrict = "unset"
    /\ vStrict' = Verdict(isValidTable(vTable, FALSE))
    /\ UNCHANGED <<vTable, vRelaxed>>

\* isValidTable(table, true)
ValidateRelaxed ==
    /\ vRelaxed = "unset"
    /\ vRelaxed' = Verdict(isValidTable(vTable, TRUE))
    /\ UNCHANGED <<vTable, vStrict>>

ValNext ==
    \/ ValidateStrict /\ ValFrame
    \/ ValidateRelaxed /\ ValFrame


(***************************************************************************)
(* Table locator: src/src/components/CopyTools.tsx  findTables             *)
(***************************************************************************)

TableIds == 1..MaxTables

\* The grid containers matched by the selector of CopyTools.tsx:458-462, in
\* document order; both lie in the main document.
Containers == {1, 2}

\* What a table element of the page looks like.
LocShapes ==
    { MkTable(MkRows(2, 3, 3, 1, 1, "text"), "table", "visible", 100, 100, FALSE),
      MkTable(MkRows(1, 1, 1, 1, 1, "text"), "table", "visible", 100, 100, FALSE),
      MkTable(MkRows(2, 2, 2, 1, 1, "text"), "none", "visible", 100, 100, FALSE) }

\* Where a table element is: not in the page, in the main document (inside
\* the containers cont), in the same-origin iframe, or in the cross-origin
\* iframe.  The element's id gives its place in document order.
Places == {"none", "main", "frame", "xframe"}

DomStates ==
    { [place |-> "none", cont |-> {}, shape |-> sh] : sh \in {CHOOSE x \in LocShapes : TRUE} }
    \cup { [place |-> pl, cont |-> {}, shape |-> sh] :
               pl \in {"frame", "xframe"}, sh \in LocShapes }
    \cup { [place |-> "main", cont |-> c, shape |-> sh] :
               c \in SUBSET Containers, sh \in LocShapes }

\* The elements of a set of table ids in document order.
RECURSIVE InOrder(_)
InOrder(S) ==
    IF S = {} THEN <<>>
    ELSE LET m == CHOOSE x \in S : \A y \in S : x <= y
         IN <<m>> \o InOrder(S \ {m})

Range(seq) == { seq[i] : i \in 1..Len(seq) }

\* Pushing every element of the list, seen before or not.
RECURSIVE PushNewNoDedup(_, _)
PushNewNoDedup(all, list) ==
    IF list = <<>> THEN all
    ELSE PushNewNoDedup(Append(all, Head(list)), Tail(list))

\* CopyTools.tsx:431-436, 445-450, 465-470: push every element of the list
\* that processedTables does not hold yet.
RECURSIVE PushNew(_, _)
PushNew(all, list) ==
    IF list = <<>> THEN all
    ELSE PushNew(IF Head(list) \in Range(all) THEN all ELSE Append(all, Head(list)),
                 Tail(list))

\* CopyTools.tsx:430  document.querySelectorAll("table")
MainTables(d) == InOrder({ t \in TableIds : d[t].place = "main" })

\* CopyTools.tsx:439-455: the tables of each iframe whose document can be
\* reached; the cross-origin iframe throws and is skipped.
IframeTables(d) == InOrder({ t \in TableIds : d[t].place = "frame" })

\* CopyTools.tsx:464  container.querySelectorAll("table")
ContainerTables(d, c) ==
    InOrder({ t \in TableIds : d[t].place = "main" /\ c \in d[t].cont })

RECURSIVE PushContainers(_, _, _)
PushContainers(all, d, cs) ==
    IF cs = {} THEN all
    ELSE LET c == CHOOSE x \in cs : \A y \in cs : x <= y
         IN PushContainers(PushNew(all, ContainerTables(d, c)), d, cs \ {c})

\* CopyTools.tsx:426-471  allTables
AllTables(d) ==
    PushContainers(PushNew(PushNew(<<>>, MainTables(d)), IframeTables(d)), d, Containers)

\* CopyTools.tsx:474  allTables.filter(table => isValidTable(table, relaxedMode))
Candidates(d, relaxedMode) ==
    SelectSeq(AllTables(d), LAMBDA t : isValidTable(d[t].shape, relaxedMode))

\* CopyTools.tsx:477-481 (the preview string is left out of the descriptor)
Descriptors(d, found) ==
    [i \in 1..Len(found) |->
        [id |-> i - 1, rows |-> getTableInfo(d[found[i]].shape).rows,
         cols |-> getTableInfo(d[found[i]].shape).cols]]

NoCall == [fresh |-> FALSE, tables |-> <<>>]

\* The page changes one table element.
DomChange(t, st) ==
    /\ dom[t] # st
    /\ dom' = [dom EXCEPT ![t] = st]
    /\ returned' = NoCall
    /\ UNCHANGED foundTables

\* CopyTools.tsx:424-485  findTables(relaxedMode).  fault is where an exception
\* is raised inside the try block: "none", "early" (before the assignment of
\* line 474) or "late" (after it, while the descriptors are built); the catch
\* of lines 482-484 then returns [].
findTables(relaxedMode, fault) ==
    /\ foundTables' = IF fault = "early" THEN foundTables
                      ELSE Candidates(dom, relaxedMode)
    /\ returned' = [fresh |-> TRUE,
                    tables |-> IF fault = "none"
                               THEN Descriptors(dom, Candidates(dom, relaxedMode))
                               ELSE <<>>]
    /\ UNCHANGED dom

\* CopyTools.tsx:900-905: the findTables command; CopyTools.tsx:159: a scan.
FindTablesCmd == \E fault \in {"none", "early", "late"} : findTables(TRUE, fault)

LocNext ==
    \/ \E t \in TableIds, st \in DomStates : DomChange(t, st) /\ LocFrame
    \/ FindTablesCmd /\ LocFrame


(***************************************************************************)
(* Change monitor: src/src/components/CopyTools.tsx  performTableDetection *)
(***************************************************************************)

MAX_DETECTION_ATTEMPTS == 15   \* CopyTools.tsx:95

\* Math.pow for natural exponents.
RECURSIVE Pow(_, _)
Pow(b, e) == IF e = 0 THEN 1 ELSE b * Pow(b, e - 1)

ScanSlots == 1..MaxSending

IdleScan == [busy |-> FALSE, count |-> 0, first |-> FALSE, differed |-> FALSE]

NoScan == [began |-> FALSE, sent |-> FALSE, first |-> FALSE, differed |-> FALSE]

InFlight == Cardinality({ k \in ScanSlots : sending[k].busy })

FreeScanSlot(k) == /\ ~sending[k].busy
                   /\ \A j \in ScanSlots : j < k => sending[j].busy

\* The page gains or loses tables.
PageChange(n) ==
    /\ n # domCount
    /\ domCount' = n
    /\ UNCHANGED <<lastTableCount, detectionAttempts, firstScanDone, sending,
                   retryTimers, lastScan, ended>>

\* CopyTools.tsx:178-182: the backoff retry a scan schedules.
RetryDue(count, attempts) ==
    IF count = 0 /\ attempts < MAX_DETECTION_ATTEMPTS THEN 1 ELSE 0

\* A retry after the same 3000 ms whatever the attempt.
NextIntervalFixed(attempts) == 3000

\* CopyTools.tsx:180  Math.min(2000 * Math.pow(1.5, attempts - 1), 10000),
\* with 1.5^k as 3^k / 2^k: the product passes 10000 when 3^k >= 5 * 2^k,
\* and below that 2000 * 3^k / 2^k is a whole number.
NextInterval(attempts) ==
    LET n == Pow(3, attempts - 1)
        d == Pow(2, attempts - 1)
    IN  IF n >= 5 * d THEN 10000 ELSE (2000 * n) \div d

NoEnd == [scheduled |-> FALSE, path |-> "none", count |-> 0, attempts |-> 0,
          delay |-> 0, prev |-> 0, delivery |-> "none"]

\* CopyTools.tsx:175-182: the end of a scan that found count tables, attempts
\* being the counter after line 175.  prev is the delay of the backoff retry
\* scheduled before this one, 0 when there was none.
\* delivery tells how the scan's updateTables delivery ended: "delivered",
\* "failed", or "none" when the scan sent nothing.
ScanEnd(count, attempts, delivery) ==
    IF RetryDue(count, attempts) = 1
    THEN [scheduled |-> TRUE, path |-> "backoff", count |-> count,
          attempts |-> attempts, delay |-> NextInterval(attempts),
          prev |-> IF ended.path = "backoff" THEN ended.delay ELSE ended.prev,
          delivery |-> delivery]
    ELSE [scheduled |-> FALSE, path |-> "none", count |-> count,
          attempts |-> attempts, delay |-> 0,
          prev |-> IF ended.path = "backoff" THEN ended.delay ELSE ended.prev,
          delivery |-> delivery]

\* CopyTools.tsx:163  the scan notifies.
ShouldNotify(count) == count # lastTableCount \/ detectionAttempts = 0

\* CopyTools.tsx:156-182: performTableDetection up to its await (line 166), or
\* to its end when it sends nothing.  timers is the number of pending backoff
\* timers once the timer that started this scan, if any, is gone.
PerformTableDetection(timers) ==
    /\ detectionAttempts + InFlight < MaxScans
    /\ firstScanDone' = TRUE
    /\ lastScan' = [began |-> TRUE, sent |-> ShouldNotify(domCount),
                    first |-> ~firstScanDone,
                    differed |-> domCount # lastTableCount]
    /\ IF ShouldNotify(domCount)
       THEN /\ \E k \in ScanSlots :
                  /\ FreeScanSlot(k)
                  /\ sending' = [sending EXCEPT ![k] =
                                    [busy |-> TRUE, count |-> domCount,
                                     first |-> ~firstScanDone,
                                     differed |-> domCount # lastTableCount]]
            /\ lastTableCount' = domCount
            /\ retryTimers' = timers
            /\ UNCHANGED detectionAttempts
            /\ UNCHANGED ended
       ELSE /\ detectionAttempts' = detectionAttempts + 1
            /\ retryTimers' = timers + RetryDue(domCount, detectionAttempts + 1)
            /\ ended' = ScanEnd(domCount, detectionAttempts + 1, "none")
            /\ UNCHANGED <<sending, lastTableCount>>
    /\ UNCHANGED domCount

\* A scan started by a timer of initialization, load or visibility change, a
\* poll tick or the mutation observer: CopyTools.tsx:823-830, 865-866, 873,
\* 840, 260-263.
TriggeredScan == PerformTableDetection(retryTimers)

\* A scan started by a backoff timer: CopyTools.tsx:181.
RetryScan ==
    /\ retryTimers > 0
    /\ PerformTableDetection(retryTimers - 1)

\* A scan that ends where its delivery failed.
ScanResumeAbortsOnFailure(k) ==
    /\ sending[k].busy
    /\ sending' = [sending EXCEPT ![k] = IdleScan]
    /\ ended' = [ended EXCEPT !.scheduled = FALSE, !.path = "none",
                              !.count = sending[k].count,
                              !.attempts = detectionAttempts,
                              !.delivery = "failed"]
    /\ UNCHANGED <<domCount, lastTableCount, detectionAttempts, firstScanDone,
                   retryTimers, lastScan>>

\* CopyTools.tsx:166-182: the delivery of updateTables has ended, delivered or
\* failed after its retries (the failure is swallowed, lines 170-172), and
\* the scan runs to its end.
ScanResume(k) ==
    /\ sending[k].busy
    /\ sending' = [sending EXCEPT ![k] = IdleScan]
    /\ detectionAttempts' = detectionAttempts + 1
    /\ retryTimers' = retryTimers + RetryDue(sending[k].count, detectionAttempts + 1)
    /\ \E delivery \in {"delivered", "failed"} :
          ended' = ScanEnd(sending[k].count, detectionAttempts + 1, delivery)
    /\ UNCHANGED <<domCount, lastTableCount, firstScanDone, lastScan>>

\* CopyTools.tsx:183-188: an exception raised in the try block after
\* findTables has returned and before line 164 is handled by the outer
\* catch, which schedules a retry in 3000 ms while the attempts are below
\* the limit.  timers is as in PerformTableDetection.
FailedScan(timers) ==
    /\ timers < MaxTimers
    /\ retryTimers' = timers + (IF detectionAttempts < MAX_DETECTION_ATTEMPTS THEN 1 ELSE 0)
    /\ ended' = [scheduled |-> detectionAttempts < MAX_DETECTION_ATTEMPTS,
                 path |-> IF detectionAttempts < MAX_DETECTION_ATTEMPTS
                          THEN "fixed" ELSE "none",
                 count |-> domCount, attempts |-> detectionAttempts,
                 delay |-> IF detectionAttempts < MAX_DETECTION_ATTEMPTS
                           THEN 3000 ELSE 0,
                 prev |-> IF ended.path = "backoff" THEN ended.delay ELSE ended.prev,
                 delivery |-> "none"]
    /\ UNCHANGED <<domCount, lastTableCount, detectionAttempts, firstScanDone,
                   sending, lastScan>>

\* A scan that fails, started by a trigger or by a retry timer.
ScanFails ==
    \/ FailedScan(retryTimers)
    \/ retryTimers > 0 /\ FailedScan(retryTimers - 1)

MonNext ==
    \/ \E n \in 0..MaxTables : PageChange(n) /\ MonFrame
    \/ TriggeredScan /\ MonFrame
    \/ RetryScan /\ MonFrame
    \/ \E k \in ScanSlots : ScanResume(k) /\ MonFrame
    \/ ScanFails /\ MonFrame


(***************************************************************************)
(* Page agent, message listener: CopyTools.tsx:886-1005.  One message is   *)
(* followed from its arrival to its response; pageResp.n counts the calls  *)
(* of that message's sendResponse.                                         *)
(***************************************************************************)

NoResponse == [n |-> 0, success |-> "absent", error |-> FALSE]

\* A handler that builds its response and returns without sending it.
RespondNotSent(n, success, error) == [n |-> n, success |-> success, error |-> error]

\* sendResponse(r) on the message being handled, n responses having been
\* sent before; success is "true", "false" or "absent" (a response without a
\* success field), error tells whether r carries a non-empty error string.
Respond(n, success, error) == [n |-> n + 1, success |-> success, error |-> error]

Succeeded(n) == Respond(n, "true", FALSE)

Failed(n) == Respond(n, "false", TRUE)

\* No message is waiting for its response: messages are followed one at a
\* time.
PageIdle == copyOp.pc # "writing" /\ relay.pc \in {"idle", "done"}

\* case "ping": CopyTools.tsx:895-898
OnPingPage ==
    /\ PageIdle
    /\ pageResp' = Respond(0, "absent", FALSE)

\* case "getHeaders": CopyTools.tsx:989-993, 793-796
OnGetHeadersPage ==
    /\ PageIdle
    /\ pageResp' = Respond(0, "true", FALSE)

\* default: CopyTools.tsx:995-997.  A request whose action cannot be read
\* throws inside the try and is answered the same way by the catch of lines
\* 999-1001.
OnUnknownAction ==
    /\ PageIdle
    /\ pageResp' = Respond(0, "false", TRUE)


(***************************************************************************)
(* Clipboard exporter: CopyTools.tsx:519-687                               *)
(***************************************************************************)

\* api: what became of the clipboard API ("none": not consulted yet,
\* "unavailable", "pending", "ok", "failed"); legacy: what
\* document.execCommand('copy') did ("none": not run, "true", "false",
\* "throw"); button and textarea: the temporary elements of the operation
\* that are in the document; ids: the table ids the request carried; success
\* and error: the result the operation's promise resolves with.
IdleCopy ==
    [pc |-> "idle", kind |-> "none", payload |-> <<>>, ids |-> <<>>,
     button |-> FALSE, textarea |-> FALSE, api |-> "none", legacy |-> "none",
     success |-> "none", error |-> FALSE]

\* The table ids a request may carry (0-based): in range, negative, too large.
CopyIds == -1..MaxTables

SelectedLists == UNION { [1..n -> CopyIds] : n \in 0..MaxSelected }

\* CopyTools.tsx:575, 635  id >= 0 && id < foundTables.length
InCandidateRange(id) == id >= 0 /\ id < Len(foundTables)

\* CopyTools.tsx:634-636  selectedIds.filter(...).map(id => foundTables[id])
SelectedTables(ids) ==
    LET kept == SelectSeq(ids, InCandidateRange)
    IN  [i \in 1..Len(kept) |-> foundTables[kept[i] + 1]]

\* The early return taken only after the textarea has been appended.
CopyRefusedLeavesTextarea(kind, ids) ==
    /\ copyOp' = [IdleCopy EXCEPT !.pc = "done", !.kind = kind, !.ids = ids,
                                  !.textarea = TRUE,
                                  !.success = "false", !.error = TRUE]
    /\ pageResp' = Failed(0)
    /\ UNCHANGED clipboard

\* An early return with an error: CopyTools.tsx:521-523, 575-577, 630-632,
\* 638-640.  The promise resolves and the listener sends the result.
CopyRefused(kind, ids) ==
    /\ copyOp' = [IdleCopy EXCEPT !.pc = "done", !.kind = kind, !.ids = ids,
                                  !.success = "false", !.error = TRUE]
    /\ pageResp' = Failed(0)
    /\ UNCHANGED clipboard

\* The legacy path reporting success whatever execCommand returned.
LegacyCopyAlwaysSucceeds(op) ==
    \E ret \in {"true", "false", "throw"} :
        /\ copyOp' = [op EXCEPT !.pc = "done", !.legacy = ret,
                                !.textarea = (ret = "throw"),
                                !.success = "true"]
        /\ clipboard' = IF ret = "true" THEN op.payload ELSE clipboard
        /\ pageResp' = Succeeded(0)

\* The legacy path: CopyTools.tsx:549-566 (604-621, 666-683).  op is the
\* operation as it stands when the path is entered.  When execCommand throws,
\* removeChild is not reached and the catch of lines 567-569 answers.
LegacyCopy(op) ==
    \E ret \in {"true", "false", "throw"} :
        /\ copyOp' = [op EXCEPT !.pc = "done", !.legacy = ret,
                                !.textarea = (ret = "throw"),
                                !.success = IF ret = "true" THEN "true" ELSE "false",
                                !.error = (ret # "true")]
        /\ clipboard' = IF ret = "true" THEN op.payload ELSE clipboard
        /\ pageResp' = IF ret = "true" THEN Succeeded(0) ELSE Failed(0)

\* CopyTools.tsx:528-546 (583-601, 645-663): with the clipboard API the
\* temporary button is appended and writeText is awaited; without it the
\* legacy path runs at once.
CopyPayload(kind, payload, ids) ==
    LET op == [IdleCopy EXCEPT !.kind = kind, !.payload = payload, !.ids = ids]
    IN  \E supportsClipboardAPI \in BOOLEAN :
            IF supportsClipboardAPI
            THEN /\ copyOp' = [op EXCEPT !.pc = "writing", !.button = TRUE,
                                         !.api = "pending"]
                 /\ pageResp' = NoResponse
                 /\ UNCHANGED clipboard
            ELSE LegacyCopy([op EXCEPT !.api = "unavailable"])

\* CopyTools.tsx:540-545: writeText resolves, the button is removed and the
\* operation succeeds; or it rejects, and the legacy path runs with the
\* button still in the document.
ClipboardWriteEnds ==
    /\ copyOp.pc = "writing"
    /\ \E written \in BOOLEAN :
          IF written
          THEN /\ copyOp' = [copyOp EXCEPT !.pc = "done", !.button = FALSE,
                                           !.api = "ok", !.success = "true"]
               /\ clipboard' = copyOp.payload
               /\ pageResp' = Succeeded(pageResp.n)
          ELSE LegacyCopy([copyOp EXCEPT !.api = "failed"])

\* case "copyTables": CopyTools.tsx:915-922, 519-525
OnCopyTables ==
    /\ PageIdle
    /\ IF Len(foundTables) = 0
       THEN CopyRefused("all", <<>>)
       ELSE CopyPayload("all", foundTables, <<>>)

\* case "copySingleTable": CopyTools.tsx:924-936, 573-580.  has = FALSE is a
\* request without a tableId.
OnCopySingleTable(has, tableId) ==
    /\ PageIdle
    /\ IF ~has
       THEN /\ pageResp' = Failed(0)
            /\ UNCHANGED <<copyOp, clipboard>>
       ELSE IF tableId < 0 \/ tableId >= Len(foundTables)
       THEN CopyRefused("single", <<tableId>>)
       ELSE CopyPayload("single", <<foundTables[tableId + 1]>>, <<tableId>>)

\* case "copySelectedTables": CopyTools.tsx:938-952, 628-642.  has = FALSE is
\* a request without selectedIds.
OnCopySelectedTables(has, selectedIds) ==
    /\ PageIdle
    /\ IF ~has
       THEN /\ pageResp' = Failed(0)
            /\ UNCHANGED <<copyOp, clipboard>>
       ELSE IF Len(selectedIds) = 0
       THEN CopyRefused("selected", selectedIds)
       ELSE IF Len(SelectedTables(selectedIds)) = 0
       THEN CopyRefused("selected", selectedIds)
       ELSE CopyPayload("selected", SelectedTables(selectedIds), selectedIds)

CopyNext ==
    \/ OnCopyTables /\ UNCHANGED <<restVars, locVars, prot, hl, relay, sched>>
    \/ \E id \in CopyIds : OnCopySingleTable(TRUE, id) /\ UNCHANGED <<restVars, locVars, prot, hl, relay, sched>>
    \/ OnCopySingleTable(FALSE, 0) /\ UNCHANGED <<restVars, locVars, prot, hl, relay, sched>>
    \/ \E ids \in SelectedLists : OnCopySelectedTables(TRUE, ids) /\ UNCHANGED <<restVars, locVars, prot, hl, relay, sched>>
    \/ OnCopySelectedTables(FALSE, <<>>) /\ UNCHANGED <<restVars, locVars, prot, hl, relay, sched>>
    \/ ClipboardWriteEnds /\ UNCHANGED <<restVars, locVars, prot, hl, relay, sched>>



(***************************************************************************)
(* Copy-protection toggle: CopyTools.tsx:690-765                           *)
(***************************************************************************)

\* The page's accessible style sheet: rule i is the page's i-th rule and
\* blocks selection (user-select: none) or does not.
Sheets ==
    UNION { { [i \in 1..n |-> [id |-> i, blocks |-> i \in B]] : B \in SUBSET (1..n) } :
            n \in 0..MaxRules }

\* The page agent on a page with that sheet, before any toggle
\* (CopyTools.tsx:96).  original and toggles are history: the sheet as the
\* page made it and the number of toggleCopyProtection calls so far;
\* reported is the copyEnabled of the last response that carried one.
Unprotected(sheet) ==
    [sheet |-> sheet, overrides |-> 0, copyProtectionDisabled |-> FALSE,
     original |-> sheet, toggles |-> 0, reported |-> "none",
     saved |-> {}, stopping |-> 0, preventing |-> 0]

\* CopyTools.tsx:696-706: the loop over the snapshot of the sheet's rules,
\* from snapshot index i on (from 1 here, from 0 in the code).  deleteRule
\* acts on the live sheet at the snapshot's index; on an index past the end
\* of the live sheet it throws, and the catch of lines 707-709 leaves the
\* rest of the sheet as it is.
RECURSIVE DeleteBlockingRules(_, _, _)
DeleteBlockingRules(rules, i, live) ==
    IF i > Len(rules) THEN live
    ELSE IF ~rules[i].blocks THEN DeleteBlockingRules(rules, i + 1, live)
    ELSE IF i > Len(live) THEN live
    ELSE DeleteBlockingRules(rules, i + 1,
                             SubSeq(live, 1, i - 1) \o SubSeq(live, i + 1, Len(live)))

\* disableCopyProtection without the assignment of line 724.
DisableKeepsFlag(p) ==
    [p EXCEPT !.sheet = DeleteBlockingRules(p.sheet, 1, p.sheet),
              !.overrides = p.overrides + 1]

\* CopyTools.tsx:690-728
disableCopyProtection(p) ==
    [p EXCEPT !.sheet = DeleteBlockingRules(p.sheet, 1, p.sheet),
              !.overrides = p.overrides + 1,
              !.copyProtectionDisabled = TRUE]

\* CopyTools.tsx:731-745: every style node carrying the override text is
\* removed.
enableCopyProtection(p) ==
    [p EXCEPT !.overrides = 0, !.copyProtectionDisabled = FALSE]

\* case "toggleCopyProtection": CopyTools.tsx:954-958, 748-760
OnToggleCopyProtection ==
    /\ prot.toggles < MaxToggles
    /\ PageIdle
    /\ LET p == IF prot.copyProtectionDisabled
                THEN enableCopyProtection(prot)
                ELSE disableCopyProtection(prot)
       IN  prot' = [p EXCEPT !.toggles = prot.toggles + 1,
                             !.reported = IF p.copyProtectionDisabled
                                          THEN "true" ELSE "false"]
    /\ pageResp' = Succeeded(0)

\* case "checkCopyStatus": CopyTools.tsx:960-964, 763-765
OnCheckCopyStatus ==
    /\ PageIdle
    /\ prot' = [prot EXCEPT !.reported = IF prot.copyProtectionDisabled
                                         THEN "true" ELSE "false"]
    /\ pageResp' = Succeeded(0)

\* The second content script, CopyTools.tsx:1318-1397.  matched are the
\* positions of the rules whose selector text contains one of the names of
\* lines 1327-1333: each is saved in originalStyles and loses its blocking
\* declarations; the override style is appended; a capturing listener that
\* stops propagation is added for each of the nine events and one more for
\* selectstart, and one that prevents the default of contextmenu.  saved,
\* stopping and preventing stay empty in the first script.
disableCopyProtectionV2(p, matched) ==
    [p EXCEPT !.saved = p.saved \cup matched,
              !.sheet = [i \in 1..Len(p.sheet) |->
                            IF i \in matched
                            THEN [p.sheet[i] EXCEPT !.blocks = FALSE]
                            ELSE p.sheet[i]],
              !.overrides = p.overrides + 1,
              !.stopping = p.stopping + 10,
              !.preventing = p.preventing + 1,
              !.copyProtectionDisabled = TRUE]

\* CopyTools.tsx:1400-1417: the saved text is assigned to rule.cssText,
\* which the browser applies or ignores (assignable); originalStyles is
\* cleared and the override style nodes are removed.
enableCopyProtectionV2(p, assignable) ==
    [p EXCEPT !.sheet = [i \in 1..Len(p.sheet) |->
                            IF assignable /\ i \in p.saved
                            THEN p.original[i] ELSE p.sheet[i]],
              !.saved = {},
              !.overrides = 0,
              !.copyProtectionDisabled = FALSE]

\* case "toggleCopyProtection" of the second script: CopyTools.tsx:1564-1568,
\* 1420-1434
OnToggleCopyProtectionV2 ==
    /\ prot.toggles < MaxToggles
    /\ PageIdle
    /\ \E matched \in SUBSET (1..Len(prot.sheet)), assignable \in BOOLEAN :
          LET p == IF prot.copyProtectionDisabled
                   THEN enableCopyProtectionV2(prot, assignable)
                   ELSE disableCopyProtectionV2(prot, matched)
          IN  prot' = [p EXCEPT !.toggles = prot.toggles + 1,
                                !.reported = IF p.copyProtectionDisabled
                                             THEN "true" ELSE "false"]
    /\ pageResp' = Succeeded(0)

Prot2Next ==
    \/ OnToggleCopyProtectionV2 /\ UNCHANGED <<restVars, locVars, copyOp, clipboard, hl, relay, sched>>
    \/ OnCheckCopyStatus /\ UNCHANGED <<restVars, locVars, copyOp, clipboard, hl, relay, sched>>

ProtNext ==
    \/ OnToggleCopyProtection /\ UNCHANGED <<restVars, locVars, copyOp, clipboard, hl, relay, sched>>
    \/ OnCheckCopyStatus /\ UNCHANGED <<restVars, locVars, copyOp, clipboard, hl, relay, sched>>



(***************************************************************************)
(* Highlighter: CopyTools.tsx:488-516                                      *)
(***************************************************************************)

\* styled: the table elements whose inline outline and background are the
\* highlight's.  last and target are history: the operation run last
\* ("highlight", "scan", "unload") and the table the last highlightTable
\* styled (0: none), index the tableId it carried; listed are the tables
\* the last response to a findTables command described, in its order.
NoHighlight == [styled |-> {}, last |-> "none", target |-> 0, index |-> -1,
                listed |-> <<>>]

\* CopyTools.tsx:507-516: the styling of every table of foundTables is reset.
clearHighlight(styled) == styled \ Range(foundTables)

\* case "highlightTable": CopyTools.tsx:907-913, 488-504.  has = FALSE is a
\* request without a tableId.
OnHighlightTable(has, tableId) ==
    /\ PageIdle
    /\ hl' = IF ~has THEN hl
             ELSE IF tableId >= 0 /\ tableId < Len(foundTables)
             THEN [styled |-> clearHighlight(hl.styled) \cup {foundTables[tableId + 1]},
                   last |-> "highlight", target |-> foundTables[tableId + 1],
                   index |-> tableId, listed |-> hl.listed]
             ELSE [styled |-> clearHighlight(hl.styled),
                   last |-> "highlight", target |-> 0,
                   index |-> tableId, listed |-> hl.listed]
    /\ pageResp' = Succeeded(0)
    /\ UNCHANGED locVars

\* case "findTables": CopyTools.tsx:900-905
OnFindTables ==
    /\ PageIdle
    /\ FindTablesCmd
    /\ hl' = [hl EXCEPT !.last = "scan",
                        !.listed = IF returned'.tables = <<>> THEN <<>>
                                   ELSE foundTables']
    /\ pageResp' = Respond(0, "absent", FALSE)

\* CopyTools.tsx:156-160: a scan of performTableDetection, started by a
\* mutation, a backoff timer or the poll, replaces foundTables.
AutoScan ==
    /\ FindTablesCmd
    /\ UNCHANGED <<hl, pageResp>>

\* beforeunload: CopyTools.tsx:878-883 (clearHighlight, observer.disconnect)
\* and 845-847 (clearInterval of the poll).
Unload ==
    /\ hl' = [hl EXCEPT !.styled = clearHighlight(hl.styled), !.last = "unload"]
    /\ sched' = [sched EXCEPT !.observing = FALSE, !.polling = FALSE,
                              !.unloaded = TRUE, !.last = "unload"]
    /\ UNCHANGED <<locVars, pageResp>>

\* The page moves a table in or out of the main document, or changes its look.
HlNext ==
    \/ \E t \in TableIds :
          \E st \in { x \in DomStates : x.cont = {} /\ x.place \in {"none", "main"} } :
             DomChange(t, st) /\ UNCHANGED <<restVars, pageVars>>
    \/ OnFindTables /\ UNCHANGED <<restVars, copyOp, clipboard, prot, relay, sched>>
    \/ AutoScan /\ UNCHANGED <<restVars, copyOp, clipboard, prot, relay, sched>>
    \/ \E id \in CopyIds :
          OnHighlightTable(TRUE, id) /\ UNCHANGED <<restVars, copyOp, clipboard, prot, relay, sched>>
    \/ OnHighlightTable(FALSE, 0) /\ UNCHANGED <<restVars, copyOp, clipboard, prot, relay, sched>>
    \/ Unload /\ UNCHANGED <<restVars, copyOp, clipboard, prot, relay>>



(***************************************************************************)
(* Relay to the background worker: CopyTools.tsx:127-153, 768-790          *)
(***************************************************************************)

DefaultMaxRetries == 5   \* CopyTools.tsx:127

\* A wait that grows by one second per attempt.
BackoffWaitLinear(i) == 1000 * (i + 1)

\* CopyTools.tsx:149  1000 * Math.pow(2, i)
BackoffWait(i) == 1000 * Pow(2, i)

\* CopyTools.tsx:97.  i is the loop index of line 139; sends and waits are
\* history: the number of chrome.runtime.sendMessage(message) calls and the
\* waits made between them; outcome is "response" when an attempt was
\* answered and "error" when the last attempt's error was thrown.
IdleRelay ==
    [pc |-> "idle", action |-> "none", headers |-> <<>>, i |-> 0, sends |-> 0,
     waits |-> <<>>, outcome |-> "none", backgroundReady |-> FALSE]

\* CopyTools.tsx:127-136: sendMessageWithRetry(message) up to its first await,
\* the ping when the worker is not known to be ready, else the first attempt.
sendMessageWithRetry(action, headers) ==
    /\ relay' = [IdleRelay EXCEPT !.pc = IF relay.backgroundReady THEN "send" ELSE "ping",
                                  !.action = action, !.headers = headers,
                                  !.backgroundReady = relay.backgroundReady]
    /\ pageResp' = NoResponse

\* CopyTools.tsx:131-135: the ping is answered ready, answered otherwise, or
\* fails.
PingEnds ==
    /\ relay.pc = "ping"
    /\ \E ready \in BOOLEAN :
          relay' = [relay EXCEPT !.pc = "send", !.backgroundReady = ready]
    /\ UNCHANGED pageResp

\* CopyTools.tsx:139-151, 774-777, 968-972: an attempt ends.  Answered, the
\* response (with success true, false, or none at all) is relayed to the
\* sender; failed, the loop waits, or after the last attempt throws, and
\* applyHeaders / clearHeaders answer {success: false, error}.
SendEnds ==
    /\ relay.pc = "send"
    /\ \E answer \in {"true", "false", "absent", "fails"} :
          IF answer # "fails"
          THEN /\ relay' = [relay EXCEPT !.pc = "done", !.sends = relay.sends + 1,
                                         !.outcome = "response"]
               /\ pageResp' = Respond(pageResp.n, answer, answer = "false")
          ELSE IF relay.i = DefaultMaxRetries - 1
          THEN /\ relay' = [relay EXCEPT !.pc = "done", !.sends = relay.sends + 1,
                                         !.outcome = "error"]
               /\ pageResp' = Failed(pageResp.n)
          ELSE /\ relay' = [relay EXCEPT !.pc = "wait", !.sends = relay.sends + 1,
                                         !.waits = Append(relay.waits, BackoffWait(relay.i))]
               /\ UNCHANGED pageResp

\* CopyTools.tsx:150, 139: the wait is over, the next attempt is made.
WaitEnds ==
    /\ relay.pc = "wait"
    /\ relay' = [relay EXCEPT !.pc = "send", !.i = relay.i + 1]
    /\ UNCHANGED pageResp

\* case "applyHeaders": CopyTools.tsx:966-978, 768-778.  has = FALSE is a
\* request without headers.
OnApplyHeadersPage(has, headers) ==
    /\ PageIdle
    /\ IF has
       THEN sendMessageWithRetry("applyHeaders", headers)
       ELSE pageResp' = Failed(0) /\ UNCHANGED relay

\* case "clearHeaders": CopyTools.tsx:980-987, 781-790
OnClearHeadersPage ==
    /\ PageIdle
    /\ sendMessageWithRetry("clearHeaders", <<>>)

RelayNext ==
    \/ \E H \in HeaderLists :
          OnApplyHeadersPage(TRUE, H)
             /\ UNCHANGED <<restVars, locVars, copyOp, clipboard, prot, hl, sched>>
    \/ OnApplyHeadersPage(FALSE, <<>>)
          /\ UNCHANGED <<restVars, locVars, copyOp, clipboard, prot, hl, sched>>
    \/ OnClearHeadersPage /\ UNCHANGED <<restVars, locVars, copyOp, clipboard, prot, hl, sched>>
    \/ PingEnds /\ UNCHANGED <<restVars, locVars, copyOp, clipboard, prot, hl, sched>>
    \/ SendEnds /\ UNCHANGED <<restVars, locVars, copyOp, clipboard, prot, hl, sched>>
    \/ WaitEnds /\ UNCHANGED <<restVars, locVars, copyOp, clipboard, prot, hl, sched>>



(***************************************************************************)
(* The page agent's message listener as a whole: CopyTools.tsx:886-1005    *)
(***************************************************************************)

MsgNext ==
    \/ OnPingPage /\ UNCHANGED <<restVars, locVars, copyOp, clipboard, prot, hl, relay, sched>>
    \/ OnGetHeadersPage /\ UNCHANGED <<restVars, locVars, copyOp, clipboard, prot, hl, relay, sched>>
    \/ OnUnknownAction /\ UNCHANGED <<restVars, locVars, copyOp, clipboard, prot, hl, relay, sched>>
    \/ OnFindTables /\ UNCHANGED <<restVars, copyOp, clipboard, prot, relay, sched>>
    \/ \E id \in {-1, 0} :
          OnHighlightTable(TRUE, id) /\ UNCHANGED <<restVars, copyOp, clipboard, prot, relay, sched>>
    \/ OnHighlightTable(FALSE, 0) /\ UNCHANGED <<restVars, copyOp, clipboard, prot, relay, sched>>
    \/ OnCopyTables /\ UNCHANGED <<restVars, locVars, prot, hl, relay, sched>>
    \/ \E id \in {-1, 0} :
          OnCopySingleTable(TRUE, id) /\ UNCHANGED <<restVars, locVars, prot, hl, relay, sched>>
    \/ OnCopySingleTable(FALSE, 0) /\ UNCHANGED <<restVars, locVars, prot, hl, relay, sched>>
    \/ \E ids \in {<<>>, <<0>>} :
          OnCopySelectedTables(TRUE, ids) /\ UNCHANGED <<restVars, locVars, prot, hl, relay, sched>>
    \/ OnCopySelectedTables(FALSE, <<>>) /\ UNCHANGED <<restVars, locVars, prot, hl, relay, sched>>
    \/ ClipboardWriteEnds /\ UNCHANGED <<restVars, locVars, prot, hl, relay, sched>>
    \/ OnToggleCopyProtection /\ UNCHANGED <<restVars, locVars, copyOp, clipboard, hl, relay, sched>>
    \/ OnCheckCopyStatus /\ UNCHANGED <<restVars, locVars, copyOp, clipboard, hl, relay, sched>>
    \/ OnApplyHeadersPage(TRUE, <<>>)
          /\ UNCHANGED <<restVars, locVars, copyOp, clipboard, prot, hl, sched>>
    \/ OnApplyHeadersPage(FALSE, <<>>)
          /\ UNCHANGED <<restVars, locVars, copyOp, clipboard, prot, hl, sched>>
    \/ OnClearHeadersPage /\ UNCHANGED <<restVars, locVars, copyOp, clipboard, prot, hl, sched>>
    \/ PingEnds /\ UNCHANGED <<restVars, locVars, copyOp, clipboard, prot, hl, sched>>
    \/ SendEnds /\ UNCHANGED <<restVars, locVars, copyOp, clipboard, prot, hl, sched>>
    \/ WaitEnds /\ UNCHANGED <<restVars, locVars, copyOp, clipboard, prot, hl, sched>>



(***************************************************************************)
(* Scan scheduling: CopyTools.tsx:112-124, 192-266, 799-848.  Time is in   *)
(* milliseconds and passes in steps of ImmediateWait, the shortest timer.  *)
(***************************************************************************)

DebounceWait == 800    \* CopyTools.tsx:192
ImmediateWait == 50    \* CopyTools.tsx:195
InitTimers == 5        \* CopyTools.tsx:826-830

\* A debounce that lets the timer of the first call of a burst run on.
debounceKeepsTimer(timeout, wait, immediate) ==
    [timeout |-> IF timeout >= 0 THEN timeout ELSE wait,
     callNow |-> immediate /\ timeout < 0]

\* CopyTools.tsx:112-124  a call of the function debounce(func, wait,
\* immediate) returns, timeout being the time left on its timer, -1 when it
\* has none: the timer is cleared and set to wait, and func is called now
\* when immediate is set and there was no timer.
debounce(timeout, wait, immediate) ==
    [timeout |-> wait, callNow |-> immediate /\ timeout < 0]

\* CopyTools.tsx:799-861: initializeTableDetection has sent its ping and
\* startTablePolling has set the interval.  deb and imm are the time left on
\* the timers of debouncedUpdateTables and immediateTableDetection; timers is
\* the number of pending timers of lines 826-830.  History: reqAge is the
\* time since the last call of debouncedUpdateTables and reqs the number of
\* its calls since its timer was last idle, sigAge the time since the oldest
\* significant batch that no scan has followed (-1 when there is none), last
\* what the last step did, lastAt the reqAge at which a debounced scan ran.
IdleSched ==
    [deb |-> -1, imm |-> -1, timers |-> 0, pinging |-> TRUE,
     observing |-> FALSE, polling |-> TRUE, unloaded |-> FALSE,
     reqAge |-> DebounceWait + ImmediateWait, reqs |-> 0, sigAge |-> -1,
     last |-> "none", lastAt |-> 0]

Older(age, cap) == IF age < 0 THEN age ELSE IF age + ImmediateWait > cap THEN cap ELSE age + ImmediateWait

\* ImmediateWait ms pass; no timer is due.
Elapse ==
    /\ sched.deb # 0 /\ sched.imm # 0
    /\ sched' = [sched EXCEPT
                    !.deb = IF sched.deb > 0 THEN sched.deb - ImmediateWait ELSE -1,
                    !.imm = IF sched.imm > 0 THEN sched.imm - ImmediateWait ELSE -1,
                    !.reqAge = Older(sched.reqAge, DebounceWait + ImmediateWait),
                    !.sigAge = Older(sched.sigAge, DebounceWait)]

\* CopyTools.tsx:115-118 with immediate = false: the timer of
\* debouncedUpdateTables is due, the scan starts.
DebouncedFires ==
    /\ sched.deb = 0
    /\ sched' = [sched EXCEPT !.deb = -1, !.sigAge = -1,
                              !.last = "debounced", !.lastAt = sched.reqAge]

\* CopyTools.tsx:115-118 with immediate = true: the timer of
\* immediateTableDetection is due, nothing is called.
ImmediateWindowEnds ==
    /\ sched.imm = 0
    /\ sched' = [sched EXCEPT !.imm = -1, !.last = "window"]

\* CopyTools.tsx:198-266: the observer's callback on a batch of mutations.
\* kind is "significant" (a table-related childList change that adds a table
\* or an iframe), "table" (any other table-related change) or "other".
MutationBatch(kind) ==
    /\ sched.observing
    /\ IF kind = "significant"
       THEN LET d == debounce(sched.imm, ImmediateWait, TRUE)
            IN  sched' = [sched EXCEPT
                             !.imm = d.timeout,
                             !.sigAge = IF d.callNow THEN -1
                                        ELSE IF sched.sigAge < 0 THEN 0
                                        ELSE sched.sigAge,
                             !.last = IF d.callNow THEN "immediate" ELSE "suppressed"]
       ELSE IF kind = "table"
       THEN LET d == debounce(sched.deb, DebounceWait, FALSE)
            IN  sched' = [sched EXCEPT
                             !.deb = d.timeout, !.reqAge = 0,
                             !.reqs = IF sched.deb < 0 THEN 1
                                      ELSE IF sched.reqs < 3 THEN sched.reqs + 1 ELSE 3,
                             !.last = "request"]
       ELSE sched' = [sched EXCEPT !.last = "ignored"]

\* CopyTools.tsx:837-843: a tick of the 30 s interval; hidden is
\* document.hidden at the tick.
PollTick(hidden) ==
    /\ sched.polling
    /\ sched' = [sched EXCEPT
                    !.sigAge = IF hidden THEN sched.sigAge ELSE -1,
                    !.last = IF hidden THEN "poll-hidden" ELSE "poll-scan"]

\* CopyTools.tsx:805-831: the ping of initialization has settled; the
\* observer is attached, immediateTableDetection is called and the five
\* timers are set.
InitEnds ==
    /\ sched.pinging
    /\ LET d == debounce(sched.imm, ImmediateWait, TRUE)
       IN  sched' = [sched EXCEPT !.pinging = FALSE, !.observing = TRUE,
                                  !.imm = d.timeout, !.timers = InitTimers,
                                  !.sigAge = IF d.callNow THEN -1 ELSE sched.sigAge,
                                  !.last = "init"]

\* CopyTools.tsx:826-830: one of the timers of initialization is due, the
\* scan starts.
InitTimerFires ==
    /\ sched.timers > 0
    /\ sched' = [sched EXCEPT !.timers = sched.timers - 1, !.sigAge = -1,
                              !.last = "timer-scan"]

SchedNext ==
    \/ Elapse /\ UNCHANGED <<restVars, locVars, pageResp, copyOp, clipboard, prot, hl, relay>>
    \/ DebouncedFires /\ UNCHANGED <<restVars, locVars, pageResp, copyOp, clipboard, prot, hl, relay>>
    \/ ImmediateWindowEnds /\ UNCHANGED <<restVars, locVars, pageResp, copyOp, clipboard, prot, hl, relay>>
    \/ \E kind \in {"significant", "table", "other"} :
          MutationBatch(kind) /\ UNCHANGED <<restVars, locVars, pageResp, copyOp, clipboard, prot, hl, relay>>
    \/ \E hidden \in BOOLEAN :
          PollTick(hidden) /\ UNCHANGED <<restVars, locVars, pageResp, copyOp, clipboard, prot, hl, relay>>
    \/ InitEnds /\ UNCHANGED <<restVars, locVars, pageResp, copyOp, clipboard, prot, hl, relay>>
    \/ InitTimerFires /\ UNCHANGED <<restVars, locVars, pageResp, copyOp, clipboard, prot, hl, relay>>
    \/ Unload /\ UNCHANGED <<restVars, copyOp, clipboard, prot, relay>>


(***************************************************************************)
(* Initial states                                                          *)
(***************************************************************************)

IdleSlots == [s \in Slots |-> IdleSlot]

IdleDom ==
    [t \in TableIds |->
        [place |-> "none", cont |-> {}, shape |-> CHOOSE x \in LocShapes : TRUE]]

IdleScans == [k \in ScanSlots |-> IdleScan]

\* The pages with k candidate tables in the main document, k = 0..MaxTables.
CopyPages ==
    { [t \in TableIds |->
          IF t <= k
          THEN [place |-> "main", cont |-> {},
                shape |-> CHOOSE x \in LocShapes : isValidTable(x, TRUE)]
          ELSE IdleDom[t]] :
      k \in 0..MaxTables }

\* The worker before its script has run: part_002:5-6.
BgStart ==
    /\ bgLoaded = FALSE /\ isReady = FALSE
    /\ customHeaders = <<>> /\ dynamicRules = {} /\ slots = IdleSlots
    /\ bgResp = NoReply
    /\ vTable = ForeignElement /\ vStrict = "unset" /\ vRelaxed = "unset"
    /\ dom = IdleDom /\ foundTables = <<>> /\ returned = NoCall
    /\ domCount = 0 /\ lastTableCount = 0 /\ detectionAttempts = 0
    /\ firstScanDone = FALSE /\ sending = IdleScans /\ retryTimers = 0
    /\ lastScan = NoScan
    /\ ended = NoEnd
    /\ pageResp = NoResponse
    /\ copyOp = IdleCopy /\ clipboard = <<>>
    /\ prot = Unprotected(<<>>)
    /\ hl = NoHighlight
    /\ relay = IdleRelay
    /\ sched = IdleSched

\* Any element, not yet validated.
ValStart ==
    /\ bgLoaded = FALSE /\ isReady = FALSE
    /\ customHeaders = <<>> /\ dynamicRules = {} /\ slots = IdleSlots
    /\ bgResp = NoReply
    /\ vTable \in ValInputs /\ vStrict = "unset" /\ vRelaxed = "unset"
    /\ dom = IdleDom /\ foundTables = <<>> /\ returned = NoCall
    /\ domCount = 0 /\ lastTableCount = 0 /\ detectionAttempts = 0
    /\ firstScanDone = FALSE /\ sending = IdleScans /\ retryTimers = 0
    /\ lastScan = NoScan
    /\ ended = NoEnd
    /\ pageResp = NoResponse
    /\ copyOp = IdleCopy /\ clipboard = <<>>
    /\ prot = Unprotected(<<>>)
    /\ hl = NoHighlight
    /\ relay = IdleRelay
    /\ sched = IdleSched

\* Any page, before the first findTables: CopyTools.tsx:92.
LocStart ==
    /\ bgLoaded = FALSE /\ isReady = FALSE
    /\ customHeaders = <<>> /\ dynamicRules = {} /\ slots = IdleSlots
    /\ bgResp = NoReply
    /\ vTable = ForeignElement /\ vStrict = "unset" /\ vRelaxed = "unset"
    /\ dom \in [TableIds -> DomStates] /\ foundTables = <<>> /\ returned = NoCall
    /\ domCount = 0 /\ lastTableCount = 0 /\ detectionAttempts = 0
    /\ firstScanDone = FALSE /\ sending = IdleScans /\ retryTimers = 0
    /\ lastScan = NoScan
    /\ ended = NoEnd
    /\ pageResp = NoResponse
    /\ copyOp = IdleCopy /\ clipboard = <<>>
    /\ prot = Unprotected(<<>>)
    /\ hl = NoHighlight
    /\ relay = IdleRelay
    /\ sched = IdleSched

\* The state initializeTableDetection leaves (CopyTools.tsx:799-802) on the
\* module's initial values (CopyTools.tsx:92-94), on any page.
MonStart ==
    /\ bgLoaded = FALSE /\ isReady = FALSE
    /\ customHeaders = <<>> /\ dynamicRules = {} /\ slots = IdleSlots
    /\ bgResp = NoReply
    /\ vTable = ForeignElement /\ vStrict = "unset" /\ vRelaxed = "unset"
    /\ dom = IdleDom /\ foundTables = <<>> /\ returned = NoCall
    /\ domCount \in 0..MaxTables /\ lastTableCount = 0 /\ detectionAttempts = 0
    /\ firstScanDone = FALSE /\ sending = IdleScans /\ retryTimers = 0
    /\ lastScan = NoScan
    /\ ended = NoEnd
    /\ pageResp = NoResponse
    /\ copyOp = IdleCopy /\ clipboard = <<>>
    /\ prot = Unprotected(<<>>)
    /\ hl = NoHighlight
    /\ relay = IdleRelay
    /\ sched = IdleSched

\* A page whose first k tables are candidates, after a scan, with no copy begun.
CopyStart ==
    /\ bgLoaded = FALSE /\ isReady = FALSE
    /\ customHeaders = <<>> /\ dynamicRules = {} /\ slots = IdleSlots
    /\ bgResp = NoReply
    /\ vTable = ForeignElement /\ vStrict = "unset" /\ vRelaxed = "unset"
    /\ dom \in CopyPages /\ foundTables = Candidates(dom, TRUE)
    /\ returned = NoCall
    /\ domCount = 0 /\ lastTableCount = 0 /\ detectionAttempts = 0
    /\ firstScanDone = FALSE /\ sending = IdleScans /\ retryTimers = 0
    /\ lastScan = NoScan
    /\ ended = NoEnd
    /\ pageResp = NoResponse
    /\ copyOp = IdleCopy /\ clipboard = <<>>
    /\ prot = Unprotected(<<>>)
    /\ hl = NoHighlight
    /\ relay = IdleRelay
    /\ sched = IdleSched

\* A page with one candidate table, after a scan, before any message.
MsgStart ==
    /\ bgLoaded = FALSE /\ isReady = FALSE
    /\ customHeaders = <<>> /\ dynamicRules = {} /\ slots = IdleSlots
    /\ bgResp = NoReply
    /\ vTable = ForeignElement /\ vStrict = "unset" /\ vRelaxed = "unset"
    /\ dom \in {page \in CopyPages : \A t \in TableIds : page[t].place = "main" <=> t = 1}
    /\ foundTables = Candidates(dom, TRUE)
    /\ returned = NoCall
    /\ domCount = 0 /\ lastTableCount = 0 /\ detectionAttempts = 0
    /\ firstScanDone = FALSE /\ sending = IdleScans /\ retryTimers = 0
    /\ lastScan = NoScan
    /\ ended = NoEnd
    /\ pageResp = NoResponse
    /\ copyOp = IdleCopy /\ clipboard = <<>>
    /\ prot = Unprotected(<<>>)
    /\ hl = NoHighlight
    /\ relay = IdleRelay
    /\ sched = IdleSched

\* The page agent on a page with any style sheet, before any toggle.
ProtStart ==
    /\ bgLoaded = FALSE /\ isReady = FALSE
    /\ customHeaders = <<>> /\ dynamicRules = {} /\ slots = IdleSlots
    /\ bgResp = NoReply
    /\ vTable = ForeignElement /\ vStrict = "unset" /\ vRelaxed = "unset"
    /\ dom = IdleDom /\ foundTables = <<>> /\ returned = NoCall
    /\ domCount = 0 /\ lastTableCount = 0 /\ detectionAttempts = 0
    /\ firstScanDone = FALSE /\ sending = IdleScans /\ retryTimers = 0
    /\ lastScan = NoScan
    /\ ended = NoEnd
    /\ pageResp = NoResponse
    /\ copyOp = IdleCopy /\ clipboard = <<>>
    /\ \E sheet \in Sheets : prot = Unprotected(sheet)
    /\ hl = NoHighlight
    /\ relay = IdleRelay
    /\ sched = IdleSched

(***************************************************************************)
(* Specifications.  Each part runs on its own; the variables of the other  *)
(* parts keep their initial values.                                        *)
(***************************************************************************)

SpecBg == BgStart /\ [][BgNext]_vars

SpecVal == ValStart /\ [][ValNext]_vars

SpecLoc == LocStart /\ [][LocNext]_vars

SpecMon == MonStart /\ [][MonNext]_vars

SpecCopy == CopyStart /\ [][CopyNext]_vars

SpecProt == ProtStart /\ [][ProtNext]_vars

SpecProt2 == ProtStart /\ [][Prot2Next]_vars

SpecHl == CopyStart /\ [][HlNext]_vars

SpecRelay == BgStart /\ [][RelayNext]_vars

SpecMsg == MsgStart /\ [][MsgNext]_vars

SpecSched == BgStart /\ [][SchedNext]_vars


(***************************************************************************)
(* Properties of the background service worker (SpecBg).                   *)
(***************************************************************************)

\* C1: when an applyHeaders(H) request has been answered with success and no
\* other header request was in flight with it, the installed rule set is
\* exactly |H| rules with ids 1..|H|, rule i setting header H[i] to its
\* value, whatever rules were installed before; applying the same list
\* again therefore leaves the same rule set.
C1_AloneApplyInstallsExactly ==
    \A s \in Slots :
        ( /\ slots[s].pc = "done"
          /\ slots[s].action = "applyHeaders"
          /\ slots[s].alone
          /\ slots[s].success )
        => /\ Cardinality(dynamicRules) = Len(slots[s].hdrs)
           /\ { r.id : r \in dynamicRules } = 1..Len(slots[s].hdrs)
           /\ \A r \in dynamicRules :
                 /\ r.header = slots[s].hdrs[r.id].name
                 /\ r.value = slots[s].hdrs[r.id].value

\* A list of MaxHeaders headers applied a second time in a row, alone, over
\* its own installed rules, and answered with success.
C1_Witness ==
    \E s \in Slots :
        /\ slots[s].pc = "done"
        /\ slots[s].action = "applyHeaders"
        /\ slots[s].alone
        /\ slots[s].again
        /\ slots[s].success
        /\ Len(slots[s].hdrs) = MaxHeaders

C3_ReadyOnlyThroughHooks ==
    [][ /\ ( /\ ~isReady
             /\ \/ OnUpdateTables \/ OnGetHeaders \/ OnUnknown
                \/ \E s \in Slots : OnClearHeaders(s)
                \/ \E s \in Slots : OnApplyHeaders(s, FALSE, <<>>)
                \/ \E s \in Slots, H \in HeaderLists : OnApplyHeaders(s, TRUE, H) )
           => /\ bgResp'.success = FALSE
              /\ bgResp'.detail = "not ready"
              /\ UNCHANGED <<customHeaders, dynamicRules, slots>>
        /\ OnPing => bgResp' = Reply("ping", TRUE, "ready")
        /\ (~isReady /\ isReady') => (OnInstalled \/ OnStartup \/ OnActivate)
      ]_vars

\* C3 amended: while the worker is not ready a message other than ping is
\* answered with a failure and changes neither the headers nor the rules,
\* ping is answered in every state, and isReady becomes true when the worker
\* script is evaluated as well as in the three hooks, so that the worker is
\* ready whenever its listeners are registered.
C3_ReadyFromScriptEvaluation ==
    [][ /\ ( /\ ~isReady
             /\ \/ OnUpdateTables \/ OnGetHeaders \/ OnUnknown
                \/ \E s \in Slots : OnClearHeaders(s)
                \/ \E s \in Slots : OnApplyHeaders(s, FALSE, <<>>)
                \/ \E s \in Slots, H \in HeaderLists : OnApplyHeaders(s, TRUE, H) )
           => /\ bgResp'.success = FALSE
              /\ bgResp'.detail = "not ready"
              /\ UNCHANGED <<customHeaders, dynamicRules, slots>>
        /\ OnPing => bgResp' = Reply("ping", TRUE, "ready")
        /\ (~isReady /\ isReady')
              => (ScriptEval \/ OnInstalled \/ OnStartup \/ OnActivate)
        /\ bgLoaded' => isReady'
      ]_vars

\* The worker, loaded and ready, has answered a getHeaders message with the
\* headers.
C3_Witness ==
    /\ bgLoaded
    /\ isReady
    /\ bgResp = Reply("getHeaders", TRUE, "headers")


(***************************************************************************)
(* Properties of the change monitor (SpecMon).                             *)
(***************************************************************************)

\* C4: a scan sends an updateTables notification exactly when its table
\* count differs from the last known count or it is the first scan since
\* initialization, whatever scans are suspended in a delivery when it starts.
C4_NotifiesExactlyWhenChangedOrFirst ==
    lastScan.began =>
        (lastScan.sent <=> (lastScan.differed \/ lastScan.first))


(***************************************************************************)
(* Properties of the table validator (SpecVal).                            *)
(***************************************************************************)

\* C5: a table that isValidTable accepts in strict mode is accepted in
\* relaxed mode.
C5_StrictAcceptImpliesRelaxedAccept ==
    (vStrict = "accept" /\ vRelaxed # "unset") => vRelaxed = "accept"

\* C6 as stated: in relaxed mode isValidTable rejects a table inside a
\* date-picker widget, and accepts every visible table of at least 10 x 5
\* pixels outside a date-picker that has at least one row and at least one
\* cell in its first row.
C6_RelaxedRejectsDatePicker ==
    (vRelaxed # "unset" /\ vTable.kind = "table") =>
        /\ vTable.datepicker => vRelaxed = "reject"
        /\ ( /\ ~vTable.datepicker
             /\ vTable.display # "none" /\ vTable.visibility # "hidden"
             /\ vTable.width >= 10 /\ vTable.height >= 5
             /\ Len(vTable.rows) >= 1 /\ Len(vTable.rows[1]) >= 1 )
           => vRelaxed = "accept"

\* C6 amended: in relaxed mode isValidTable consults no denylist: it accepts
\* every visible table of at least 10 x 5 pixels that has at least one row
\* and at least one cell in its first row, inside a date-picker widget or
\* not.
C6_RelaxedAcceptsInsideDatePicker ==
    ( /\ vRelaxed # "unset"
      /\ vTable.kind = "table"
      /\ vTable.display # "none" /\ vTable.visibility # "hidden"
      /\ vTable.width >= 10 /\ vTable.height >= 5
      /\ Len(vTable.rows) >= 1 /\ Len(vTable.rows[1]) >= 1 )
    => vRelaxed = "accept"

\* A visible, sized table with a cell in its first row, inside a date-picker,
\* accepted in relaxed mode.
C6_Witness ==
    /\ vRelaxed = "accept"
    /\ vTable.kind = "table"
    /\ vTable.datepicker

C9_NoDuplicateCandidates ==
    \A i, j \in 1..Len(foundTables) :
        i # j => foundTables[i] # foundTables[j]

\* findTables has returned over a page with a candidate table that lies in
\* the main document inside both grid containers, and another candidate in
\* the accessible iframe.
C9_Witness ==
    /\ returned.fresh
    /\ Len(returned.tables) = Len(foundTables)
    /\ \E i, j \in 1..Len(foundTables) :
          /\ dom[foundTables[i]].place = "main"
          /\ dom[foundTables[i]].cont = Containers
          /\ dom[foundTables[j]].place = "frame"

C11_InvalidSingleIdRefused ==
    ( /\ copyOp.kind = "single"
      /\ copyOp.ids[1] < 0 \/ copyOp.ids[1] >= Len(foundTables) )
    => /\ copyOp.pc = "done"
       /\ copyOp.success = "false" /\ copyOp.error
       /\ copyOp.api = "none" /\ copyOp.legacy = "none"
       /\ ~copyOp.button /\ ~copyOp.textarea
       /\ copyOp.payload = <<>>

\* copySingleTable has been refused for the id equal to the candidate count,
\* on a page that has candidates.
C11_Witness ==
    /\ copyOp.kind = "single"
    /\ copyOp.pc = "done"
    /\ Len(foundTables) > 0
    /\ copyOp.ids = <<Len(foundTables)>>
    /\ copyOp.success = "false"

\* C12: copySelectedTables whose selectedIds holds an index outside the
\* candidate range is answered with an error result, {success: false} and a
\* non-empty error, also when other indices of the request are in range.
C12_AnyInvalidIndexRefused ==
    ( /\ copyOp.kind = "selected"
      /\ copyOp.pc = "done"
      /\ \E i \in 1..Len(copyOp.ids) :
            copyOp.ids[i] < 0 \/ copyOp.ids[i] >= Len(foundTables) )
    => /\ copyOp.success = "false"
       /\ copyOp.error

\* C13: for a copy of a valid selection, the legacy copy command is run
\* exactly when the clipboard API is unavailable or its write has failed;
\* when the clipboard write succeeds the result is success and the legacy
\* command is not run; when the legacy command runs, the result is success
\* exactly when the command returned true, and carries a non-empty error
\* otherwise.
C13_LegacyExactlyOnClipboardFailure ==
    ( copyOp.pc \in {"writing", "done"} /\ copyOp.payload # <<>> )
    => /\ copyOp.pc = "writing"
            => (copyOp.api = "pending" /\ copyOp.legacy = "none")
       /\ copyOp.pc = "done"
            => /\ copyOp.api \in {"unavailable", "failed", "ok"}
               /\ copyOp.legacy # "none"
                     <=> copyOp.api \in {"unavailable", "failed"}
               /\ copyOp.api = "ok"
                     => (copyOp.success = "true" /\ copyOp.legacy = "none")
               /\ copyOp.legacy # "none"
                     => /\ copyOp.success = "true" <=> copyOp.legacy = "true"
                        /\ copyOp.legacy # "true"
                              => (copyOp.success = "false" /\ copyOp.error)

\* The clipboard write of a copy has failed, the legacy command has run and
\* returned false, and the copy is answered with a failure.
C13_Witness ==
    /\ copyOp.pc = "done"
    /\ copyOp.payload # <<>>
    /\ copyOp.api = "failed"
    /\ copyOp.legacy = "false"
    /\ copyOp.success = "false" /\ copyOp.error


(***************************************************************************)
(* Properties of the copy-protection toggle (SpecProt).                    *)
(***************************************************************************)

C16_ToggleTwiceRestoresRules ==
    (prot.toggles > 0 /\ prot.toggles % 2 = 0)
    => /\ prot.sheet = prot.original
       /\ prot.overrides = 0


(***************************************************************************)
(* Properties of the highlighter (SpecHl).                                 *)
(***************************************************************************)

\* C17: at most one table carries highlight styling at any time; after a
\* highlightTable no table other than its target carries it; after page
\* unload and after a new scan no table carries it, also when the scan has
\* dropped the highlighted table from the candidate sequence.
C17_AtMostOneHighlight ==
    /\ Cardinality(hl.styled) <= 1
    /\ hl.last = "highlight" => hl.styled \subseteq {hl.target}
    /\ hl.last \in {"scan", "unload"} => hl.styled = {}


(***************************************************************************)
(* Properties of the relay to the background worker (SpecRelay).           *)
(***************************************************************************)

\* C18: sendMessageWithRetry sends the message at most 5 times; an answered
\* attempt ends the call without a further send; after the failed attempt
\* i (i = 0..3) it waits 1000 * 2^i ms, that is 1000 ms first and twice the
\* previous wait each time; when the fifth attempt fails the error is thrown,
\* and applyHeaders / clearHeaders answer {success: false, error}.
C18_FiveAttemptsDoublingWaits ==
    /\ relay.sends <= 5
    /\ Len(relay.waits) <= 4
    /\ \A k \in 1..Len(relay.waits) :
          relay.waits[k] = IF k = 1 THEN 1000 ELSE 2 * relay.waits[k - 1]
    /\ relay.pc \in {"send", "wait"} => Len(relay.waits) = relay.sends
    /\ relay.outcome = "response" => relay.sends = Len(relay.waits) + 1
    /\ relay.outcome = "error"
          => /\ relay.sends = 5
             /\ relay.waits = <<1000, 2000, 4000, 8000>>
             /\ pageResp = [n |-> 1, success |-> "false", error |-> TRUE]

\* An applyHeaders relay whose five attempts have all failed.
C18_Witness ==
    /\ relay.action = "applyHeaders"
    /\ relay.pc = "done"
    /\ relay.outcome = "error"
    /\ relay.sends = 5


(***************************************************************************)
(* Properties of the page agent's message listener (SpecMsg).              *)
(***************************************************************************)

C20_BackoffDelay ==
    ended.path = "backoff" =>
        /\ ended.delay = CASE ended.attempts = 1 -> 2000
                           [] ended.attempts = 2 -> 3000
                           [] ended.attempts = 3 -> 4500
                           [] ended.attempts = 4 -> 6750
                           [] OTHER -> 10000
        /\ ended.attempts >= 1
        /\ ended.delay <= 10000
        /\ ended.delay >= ended.prev

\* A zero-table scan, the fourth attempt, has scheduled its retry after
\* 6750 ms, the one before having been scheduled after 4500 ms.
C20_Witness ==
    /\ ended.path = "backoff"
    /\ ended.attempts = 4 /\ ended.delay = 6750 /\ ended.prev = 4500


\* C21: when the delivery of a scan's updateTables notification has failed
\* after its retries, the scan still ends: the attempt counter grows by one,
\* a backoff retry is scheduled exactly if the scan found zero tables and
\* the counter is below 15, and a triggered scan can run afterwards.
C21_FailedDeliveryCompletesScan ==
    /\ [][ ended'.delivery = "failed" /\ ended' # ended
              => /\ detectionAttempts' = detectionAttempts + 1
                 /\ ended'.attempts = detectionAttempts'
                 /\ ended'.scheduled = (ended'.count = 0 /\ detectionAttempts' < 15)
                 /\ retryTimers' = retryTimers + (IF ended'.scheduled THEN 1 ELSE 0) ]_vars
    /\ [](ended.delivery = "failed" /\ detectionAttempts + InFlight < MaxScans
                                    /\ InFlight < MaxSending
             => ENABLED TriggeredScan)

\* A scan that found no table has ended after a failed delivery and has
\* scheduled its retry.
C21_Witness ==
    /\ ended.delivery = "failed"
    /\ ended.count = 0 /\ ended.scheduled
    /\ retryTimers > 0


(***************************************************************************)
(* Properties of the scan scheduling (SpecSched).                          *)
(***************************************************************************)

\* C22: in a burst of debounced re-scan requests, each less than 800 ms
\* after the one before, the timer is always due one wait after the last
\* request, so no scan runs during the burst; the scan that runs does so
\* exactly 800 ms after the last request, and it leaves no timer behind, so
\* that only one scan runs for the burst.
C22_OneTrailingScanPerBurst ==
    /\ sched.deb >= 0 => sched.deb = DebounceWait - sched.reqAge
    /\ sched.last = "debounced" => sched.lastAt = 800 /\ sched.deb = -1

\* A burst of three requests has ended in its scan.
C22_Witness ==
    /\ sched.last = "debounced"
    /\ sched.reqs = 3

\* C23: no batch that newly introduces a table or an iframe stays without a
\* scan started at or after it for more than the short delay of 50 ms.
C23_SignificantBatchScannedAtOnce ==
    sched.sigAge <= 50


\* C24: a poll tick runs a scan exactly if the document is visible at the
\* tick, and once the page has unloaded the poll is stopped and the observer
\* detached, so that no poll tick and no mutation callback asks for a scan.
C24_NoScanRequestsAfterUnload ==
    sched.unloaded =>
        /\ ~sched.polling
        /\ ~sched.observing
        /\ sched.last \notin {"poll-scan", "poll-hidden", "request",
                              "immediate", "suppressed", "ignored"}


(***************************************************************************)
(* Properties of the disable path on a style sheet (SpecProt).             *)
(***************************************************************************)

\* C25: after the disable path has run on a style sheet, whatever the number
\* and the positions of its rules that block selection, no rule that blocks
\* selection is left in the sheet, and the rules that do not block selection
\* are all still there, in their order.
C25_DisableRemovesExactlyBlockingRules ==
    prot.toggles = 1 =>
        /\ \A i \in 1..Len(prot.sheet) : ~prot.sheet[i].blocks
        /\ SelectSeq(prot.original, LAMBDA r : ~r.blocks)
              = SelectSeq(prot.sheet, LAMBDA r : ~r.blocks)


(***************************************************************************)
(* Properties of concurrent header requests (SpecBg).                      *)
(***************************************************************************)

\* C26: when the header requests in flight have all been answered, each
\* with success, the installed rules are those of the request received
\* last, whose list is the stored one: rules 1..N for the N headers of an
\* applyHeaders, none for a clearHeaders.
C26_LastRequestWins ==
    (\A s \in Slots : slots[s].pc = "done" /\ slots[s].success)
        => dynamicRules = RulesOf(customHeaders)


\* C30: an applyHeaders request answered with success false leaves the
\* stored header list and the installed rules as they were before it.  The
\* request here is handled alone and carries the list that was stored, with
\* its rules installed, when it arrived, so both must be as the request
\* describes them.
C30_FailedApplyChangesNothing ==
    \A s \in Slots :
        (/\ slots[s].action = "applyHeaders"
         /\ slots[s].pc = "done" /\ ~slots[s].success
         /\ slots[s].alone /\ slots[s].again)
            => /\ customHeaders = slots[s].hdrs
               /\ dynamicRules = RulesOf(slots[s].hdrs)


(***************************************************************************)
(* Properties of the copy operations' temporary elements (SpecCopy).       *)
(***************************************************************************)

\* C28: when a copy operation has returned, by a clipboard write, by the
\* legacy path or by an error, neither the temporary button nor the
\* textarea it created is in the document.
C28_NoTemporaryElementRemains ==
    copyOp.pc = "done" => ~copyOp.button /\ ~copyOp.textarea


(***************************************************************************)
(* Properties of the second script's event handlers (SpecProt2).           *)
(***************************************************************************)

\* C29: whenever the protection is back on, after one disable and enable
\* or after any number of such cycles, the capturing handlers that stop the
\* propagation of copy, cut, select, contextmenu, mouse and key events and
\* the one that prevents the context menu's default are no longer
\* installed: the extension's handlers are those from before the first
\* toggle, none.
C29_HandlersRemovedOnEnable ==
    ~prot.copyProtectionDisabled => prot.stopping = 0 /\ prot.preventing = 0


(***************************************************************************)
(* Properties of commands that carry an index (SpecHl).                    *)
(***************************************************************************)

\* C27: a highlightTable command whose index is one of the last findTables
\* response acts on the table that the index denoted in that response,
\* whatever automatic scans ran in between (highlightTable has no error
\* answer).
C27_IndexDenotesListedTable ==
    (/\ hl.last = "highlight"
     /\ hl.index >= 0 /\ hl.index < Len(hl.listed))
        => hl.target = hl.listed[hl.index + 1]

=============================================================================
